---------------------------- MODULE Spec2Model ----------------------------
(***************************************************************************)
(* Model of the caption-indexed relay userbot (src/main.py, src/config.py).*)
(*                                                                         *)
(* Text is a sequence of one-character strings, so that the regular        *)
(* expressions, strip(), casefold() and int() of the source are computed   *)
(* on characters.  A Python value that may be None, an int or a str is a   *)
(* record [kind, v].                                                       *)
(***************************************************************************)
EXTENDS Integers, Sequences, FiniteSets, TLC

(***************************************************************************)
(* Bounds of the model.                                                    *)
(***************************************************************************)
\* largest message id a range link of the model names
MaxId == 2
\* operator messages handled once a run has started (specification SpecOps)
MaxOps == 1
\* largest message id of a range scanned on its own (specification SpecScan)
MaxScanId == 3
\* largest batch size such a scan is driven with
MaxChunk == 2
\* longest caption clean_caption is applied to on its own (SpecCaption)
MaxCaptionLen == 6

(***************************************************************************)
(* Python values.                                                          *)
(***************************************************************************)
None == [kind |-> "none", v |-> 0]
PyInt(i) == [kind |-> "int", v |-> i]
PyStr(s) == [kind |-> "str", v |-> s]

\* bool(x) of a None / int / str value
Truthy(x) ==
  CASE x.kind = "none" -> FALSE
    [] x.kind = "int" -> x.v # 0
    [] OTHER -> x.v # <<>>

(***************************************************************************)
(* Characters.                                                             *)
(***************************************************************************)
Digits == <<"0", "1", "2", "3", "4", "5", "6", "7", "8", "9">>

IsDigit(c) == \E i \in 1..10 : Digits[i] = c

DigitVal(c) == (CHOOSE i \in 1..10 : Digits[i] = c) - 1

\* str.isspace() / the class \s
IsSpace(c) == c \in {" ", "\t", "\n", "\r"}

UpperCase == <<"A", "B", "C", "D", "E", "G", "H", "I", "L", "M", "N", "O",
               "P", "R", "S", "T", "U", "V", "W", "X", "Y">>
LowerCase == <<"a", "b", "c", "d", "e", "g", "h", "i", "l", "m", "n", "o",
               "p", "r", "s", "t", "u", "v", "w", "x", "y">>

IsUpper(c) == \E i \in 1..Len(UpperCase) : UpperCase[i] = c

\* simple lower-casing: what re.IGNORECASE compares characters by
ToLower(c) ==
  IF IsUpper(c)
    THEN LowerCase[CHOOSE i \in 1..Len(UpperCase) : UpperCase[i] = c]
    ELSE c

\* str.casefold() of one character; "ST_LIG" is U+FB06 (the st ligature) and
\* "SHARP_S" is U+00DF, the characters whose case folding is two characters
CaseFoldChar(c) ==
  CASE c = "ST_LIG" -> <<"s", "t">>
    [] c = "SHARP_S" -> <<"s", "s">>
    [] OTHER -> <<ToLower(c)>>

(***************************************************************************)
(* String helpers.                                                         *)
(***************************************************************************)
RECURSIVE LStrip(_)
LStrip(s) == IF s # <<>> /\ IsSpace(Head(s)) THEN LStrip(Tail(s)) ELSE s

RECURSIVE RStrip(_)
RStrip(s) ==
  IF s # <<>> /\ IsSpace(s[Len(s)]) THEN RStrip(SubSeq(s, 1, Len(s) - 1)) ELSE s

\* str.strip()
Strip(s) == RStrip(LStrip(s))

\* str.lstrip("-")
RECURSIVE LStripDash(_)
LStripDash(s) == IF s # <<>> /\ Head(s) = "-" THEN LStripDash(Tail(s)) ELSE s

\* str.isdigit()
IsDigitStr(s) == s # <<>> /\ \A i \in 1..Len(s) : IsDigit(s[i])

RECURSIVE DigitsToInt(_)
DigitsToInt(s) ==
  IF s = <<>> THEN 0
  ELSE 10 * DigitsToInt(SubSeq(s, 1, Len(s) - 1)) + DigitVal(s[Len(s)])

\* the strings int() accepts: an optional sign and digits
IsIntLiteral(s) ==
  \/ IsDigitStr(s)
  \/ s # <<>> /\ Head(s) \in {"-", "+"} /\ IsDigitStr(Tail(s))

\* int(s) of such a string
ParseInt(s) ==
  IF Head(s) = "-" THEN 0 - DigitsToInt(Tail(s))
  ELSE IF Head(s) = "+" THEN DigitsToInt(Tail(s))
  ELSE DigitsToInt(s)

\* whether pattern p (lower case) matches s at position i under re.IGNORECASE
MatchesAt(s, i, p) ==
  /\ i + Len(p) - 1 <= Len(s)
  /\ \A k \in 1..Len(p) : ToLower(s[i + k - 1]) = p[k]

\* the last position of the run of non-space characters that holds position i
RECURSIVE RunEnd(_, _)
RunEnd(s, i) ==
  IF i < Len(s) /\ ~IsSpace(s[i + 1]) THEN RunEnd(s, i + 1) ELSE i

(***************************************************************************)
(* clean_caption (main.py 62-69) and URL_IN_TEXT_RE (main.py 22).          *)
(***************************************************************************)
\* the literal prefixes of URL_IN_TEXT_RE's alternatives, each followed by \S+
UrlPrefixes ==
  { <<"h", "t", "t", "p", ":", "/", "/">>,
    <<"h", "t", "t", "p", "s", ":", "/", "/">>,
    <<"t", ".", "m", "e", "/">>,
    <<"t", "e", "l", "e", "g", "r", "a", "m", ".", "m", "e", "/">>,
    <<"t", "e", "l", "e", "g", "r", "a", "m", ".", "d", "o", "g", "/">> }

\* URL_IN_TEXT_RE matches at position i: a prefix and at least one \S
UrlMatchAt(s, i) ==
  \E p \in UrlPrefixes :
    /\ MatchesAt(s, i, p)
    /\ i + Len(p) <= Len(s)
    /\ ~IsSpace(s[i + Len(p)])

\* URL_IN_TEXT_RE.sub("", s) from position i: \S+ is greedy, so a match runs to
\* the end of its run of non-space characters
RECURSIVE UrlSubFrom(_, _)
UrlSubFrom(s, i) ==
  IF i > Len(s) THEN <<>>
  ELSE IF UrlMatchAt(s, i) THEN UrlSubFrom(s, RunEnd(s, i) + 1)
  ELSE <<s[i]>> \o UrlSubFrom(s, i + 1)

URL_IN_TEXT_RE_sub(s) == UrlSubFrom(s, 1)

\* re.sub(r"\s+", " ", s)
RECURSIVE CollapseSpaces(_)
CollapseSpaces(s) ==
  IF s = <<>> THEN <<>>
  ELSE IF IsSpace(Head(s))
    THEN <<" ">> \o CollapseSpaces(LStrip(s))
    ELSE <<Head(s)>> \o CollapseSpaces(Tail(s))

\* str.casefold()
RECURSIVE CaseFold(_)
CaseFold(s) ==
  IF s = <<>> THEN <<>> ELSE CaseFoldChar(Head(s)) \o CaseFold(Tail(s))

clean_caption(text) ==
  IF text = <<>> THEN <<>>
  ELSE CaseFold(Strip(CollapseSpaces(URL_IN_TEXT_RE_sub(Strip(text)))))


(***************************************************************************)
(* normalize_chat_ref (main.py 27-33).  int(s) raises ValueError for a     *)
(* string such as "--5" that passes the isdigit test only after lstrip.    *)
(***************************************************************************)
StripAt(s) == IF s # <<>> /\ Head(s) = "@" THEN Tail(s) ELSE s

normalize_chat_ref_raises(s) ==
  LET t == StripAt(Strip(s))
  IN  IsDigitStr(LStripDash(t)) /\ ~IsIntLiteral(t)

normalize_chat_ref(s) ==
  LET t == StripAt(Strip(s))
  IN  IF IsDigitStr(LStripDash(t)) THEN PyInt(ParseInt(t)) ELSE PyStr(t)

(***************************************************************************)
(* LINK_RE (main.py 19) and parse_tme_link (main.py 36-47).                *)
(***************************************************************************)
TmePrefix == <<"t", ".", "m", "e", "/">>

\* [^/\s]
IsChatChar(c) == c # "/" /\ ~IsSpace(c)

\* the last position of the run of [^/\s] characters that holds position i
RECURSIVE ChatRunEnd(_, _)
ChatRunEnd(s, i) ==
  IF i < Len(s) /\ IsChatChar(s[i + 1]) THEN ChatRunEnd(s, i + 1) ELSE i

\* the last position of the run of digits that holds position i
RECURSIVE DigitRunEnd(_, _)
DigitRunEnd(s, i) ==
  IF i < Len(s) /\ IsDigit(s[i + 1]) THEN DigitRunEnd(s, i + 1) ELSE i

\* ([^/\s]+)/(\d+) matches at position j
ChatAndIdAt(s, j) ==
  /\ j <= Len(s)
  /\ IsChatChar(s[j])
  /\ LET k == ChatRunEnd(s, j)
     IN  k + 2 <= Len(s) /\ s[k + 1] = "/" /\ IsDigit(s[k + 2])

\* (c/) matches at position j and the rest of the pattern after it
WithCAt(s, j) ==
  /\ j + 1 <= Len(s)
  /\ ToLower(s[j]) = "c"
  /\ s[j + 1] = "/"
  /\ ChatAndIdAt(s, j + 2)

\* LINK_RE matches with its t.me/ at position i (the scheme before it is optional)
LinkMatchAt(s, i) ==
  /\ MatchesAt(s, i, TmePrefix)
  /\ WithCAt(s, i + 5) \/ ChatAndIdAt(s, i + 5)

\* the groups of the match whose t.me/ is at position i: (c/)? is greedy
LinkGroups(s, i) ==
  LET is_c == WithCAt(s, i + 5)
      j == IF is_c THEN i + 7 ELSE i + 5
      k == ChatRunEnd(s, j)
  IN  [is_c |-> is_c,
       chat_part |-> SubSeq(s, j, k),
       digits |-> SubSeq(s, k + 2, DigitRunEnd(s, k + 2))]

\* LINK_RE.search(s): the leftmost match
LINK_RE_search(s) ==
  IF \E i \in 1..Len(s) : LinkMatchAt(s, i)
    THEN [found |-> TRUE,
          groups |-> LinkGroups(s, CHOOSE i \in 1..Len(s) :
                        /\ LinkMatchAt(s, i)
                        /\ \A h \in 1..(i - 1) : ~LinkMatchAt(s, h))]
    ELSE [found |-> FALSE,
          groups |-> [is_c |-> FALSE, chat_part |-> <<>>, digits |-> <<>>]]

\* 10 to the number of decimal digits of n >= 0
RECURSIVE Shift10(_)
Shift10(n) == IF n < 10 THEN 10 ELSE 10 * Shift10(n \div 10)

\* parse_tme_link raises ValueError: no match, or int(chat_part) or
\* int(f"-100{internal}") fails for a /c/ link
parse_tme_link_raises(link) ==
  LET m == LINK_RE_search(Strip(link))
  IN  \/ ~m.found
      \/ /\ m.groups.is_c
         /\ \/ ~IsIntLiteral(m.groups.chat_part)
            \/ ParseInt(m.groups.chat_part) < 0

\* the (chat, msg_id) parse_tme_link returns
parse_tme_link(link) ==
  LET g == LINK_RE_search(Strip(link)).groups
      internal == ParseInt(g.chat_part)
  IN  [chat |-> IF g.is_c
                  THEN PyInt(0 - (100 * Shift10(internal) + internal))
                  ELSE PyStr(g.chat_part),
       msg_id |-> DigitsToInt(g.digits)]

(***************************************************************************)
(* make_post_link (main.py 72-77).  The text of the link is kept as the    *)
(* pair it is formatted from.                                              *)
(***************************************************************************)
make_post_link(chat_username, chat_id, msg_id) ==
  IF Truthy(chat_username)
    THEN [form |-> "public", chat |-> chat_username, msg_id |-> msg_id]
    ELSE [form |-> "private", chat |-> PyInt(chat_id), msg_id |-> msg_id]

(***************************************************************************)
(* Messages as get_messages returns them: None for a missing one, else an  *)
(* object with the fields id, empty, photo and caption.                    *)
(***************************************************************************)
Msg(kind, caption) == [kind |-> kind, caption |-> caption]

AbsentMsg == Msg("absent", None)
EmptyMsg == Msg("empty", None)

\* the test "m and not m.empty" of iter_range
IsLive(m) == m.kind # "absent" /\ m.kind # "empty"

\* m.photo
HasPhoto(m) == m.kind = "photo"

\* m.caption or ""
CaptionOrEmpty(m) == IF Truthy(m.caption) THEN m.caption.v ELSE <<>>

WithId(m, id) == [id |-> id, kind |-> m.kind, caption |-> m.caption]

(***************************************************************************)
(* iter_range (main.py 80-87): the generator's state between two batches.  *)
(***************************************************************************)
Min(a, b) == IF a <= b THEN a ELSE b
Max(a, b) == IF a >= b THEN a ELSE b

\* the default of the parameter chunk
DefaultChunk == 200

iter_range(chat_id, start_id, end_id, chunk) ==
  [chat_id |-> chat_id,
   lo |-> Min(start_id, end_id),
   hi |-> Max(start_id, end_id),
   chunk |-> chunk,
   base |-> Min(start_id, end_id)]

\* range(lo, hi + 1, chunk) has no further base
IterExhausted(g) == g.base > g.hi

\* fault: the batch stops at hi instead of hi + 1
IterBatchIds_DropsLast(g) ==
  [k \in 1..(Min(g.base + g.chunk, g.hi) - g.base) |-> g.base + k - 1]

\* ids = list(range(base, min(base + chunk, hi + 1)))
IterBatchIds(g) ==
  [k \in 1..(Min(g.base + g.chunk, g.hi + 1) - g.base) |-> g.base + k - 1]

IterNext(g) == [g EXCEPT !.base = g.base + g.chunk]

\* the messages of a batch that are yielded
IterYield(msgs) == SelectSeq(msgs, IsLive)

\* the answers get_messages may give for a list of ids, from messages M
Answers(ids, M) ==
  { [k \in 1..Len(ids) |-> WithId(f[k], ids[k])] : f \in [1..Len(ids) -> M] }

(***************************************************************************)
(* build_index_for_target (main.py 90-102): the loop body, and the loop    *)
(* over the messages one batch yields.                                     *)
(***************************************************************************)
IndexHas(index, key) == key \in DOMAIN index

IndexPut(index, key, id) ==
  [k \in DOMAIN index \cup {key} |-> IF k = key THEN id ELSE index[k]]

\* fault: the test "key not in index" is missing, so the last occurrence wins
IndexOne_LastWins(index, m) ==
  IF ~HasPhoto(m) THEN index
  ELSE LET key == clean_caption(CaptionOrEmpty(m))
       IN  IF key # <<>> THEN IndexPut(index, key, m.id) ELSE index

IndexOne(index, m) ==
  IF ~HasPhoto(m) THEN index
  ELSE LET key == clean_caption(CaptionOrEmpty(m))
       IN  IF key # <<>> /\ ~IndexHas(index, key)
             THEN IndexPut(index, key, m.id)
             ELSE index

RECURSIVE IndexAll(_, _)
IndexAll(index, msgs) ==
  IF msgs = <<>> THEN index
  ELSE IndexAll(IndexOne(index, Head(msgs)), Tail(msgs))

\* idx.get(key)
IndexGet(index, key) ==
  IF key \in DOMAIN index THEN PyInt(index[key]) ELSE None

EmptyIndex == [k \in {} |-> 0]

(***************************************************************************)
(* State.  The variable state is the global STATE of the source (a word    *)
(* TLA+ reserves).                                                         *)
(***************************************************************************)
VARIABLES
  state,   \* the global object STATE (main.py 139-151)
  pc,      \* where the coroutine of cmd_run is suspended
  run,     \* the local variables of cmd_run
  gen,     \* the generator of iter_range cmd_run is looping over
  ev,      \* the last step: the sender of the message and what its handler did
  ops,     \* operator messages handled since the run command
  hist     \* what the run has done so far (observation only)

vars == <<state, pc, run, gen, ev, ops, hist>>

\* Config.OWNER_ID, an integer of the environment
OWNER_ID == 7

\* the keys of State.targets (main.py 133): no code adds or removes one
TargetNums == {1, 2}

\* TargetPair() (main.py 118-123)
TargetPair ==
  [target_a |-> None, target_list |-> None, a_start |-> None, a_end |-> None]

\* State() (main.py 126-135)
State ==
  [source_x |-> None, x_start |-> None, x_end |-> None,
   targets |-> [n \in TargetNums |-> TargetPair],
   waiting_for |-> "None"]

\* the values of waiting_for: f"a_first_{n}", f"a_last_{n}"
a_first(n) == IF n = 1 THEN "a_first_1" ELSE "a_first_2"
a_last(n) == IF n = 1 THEN "a_last_1" ELSE "a_last_2"

\* waiting_for.startswith("a_first_"), waiting_for.startswith("a_last_")
StartsWithAFirst(w) == w \in {a_first(n) : n \in TargetNums}
StartsWithALast(w) == w \in {a_last(n) : n \in TargetNums}

\* fault: the target number is not read from the marker
WaitingTarget_First(w) == 1

\* int(waiting_for.split("_")[-1])
WaitingTarget(w) == CHOOSE n \in TargetNums : w \in {a_first(n), a_last(n)}

(***************************************************************************)
(* Incoming messages: the sender, the command with its arguments           *)
(* (message.command[1:]) and, for a free-text message, the text.           *)
(***************************************************************************)
Message(from_user, cmd, args, text) ==
  [from_user |-> from_user, cmd |-> cmd, args |-> args, text |-> text]

\* fault: the sender's id is not compared with the owner's
owner_only_AnySender(m) == m.from_user.kind # "none"

\* owner_only (main.py 114-115)
owner_only(m) == m.from_user.kind # "none" /\ m.from_user.v = OWNER_ID

\* len(message.command)
CommandLen(m) == 1 + Len(m.args)

\* int(message.command[1]) raises ValueError
TargetArgRaises(m) == ~IsIntLiteral(m.args[1])

\* the sender of the message handled last and what its handler did
Event(m, outcome) == [from_user |-> m.from_user, outcome |-> outcome]

\* a message the filter of its handler does not pass: no handler runs
Ignored(m) ==
  /\ ~owner_only(m)
  /\ ev' = Event(m, "ignored")
  /\ UNCHANGED <<state, pc, run, gen, hist>>

\* a handler that replies (or raises) and changes nothing
Replies(m, reply) ==
  /\ ev' = Event(m, reply)
  /\ UNCHANGED <<state, pc, run, gen, hist>>

\* a handler that changes state only
Sets(m, reply, newState) ==
  /\ state' = newState
  /\ ev' = Event(m, reply)
  /\ UNCHANGED <<pc, run, gen, hist>>

(***************************************************************************)
(* The command handlers (main.py 173-308).                                 *)
(***************************************************************************)
cmd_start(m) ==
  /\ m.cmd = "start"
  /\ \/ Ignored(m)
     \/ /\ owner_only(m)
        /\ IF \/ ~Truthy(state.source_x)
              \/ \E n \in TargetNums :
                   \/ ~Truthy(state.targets[n].target_a)
                   \/ ~Truthy(state.targets[n].target_list)
             THEN Replies(m, "help_missing")
             ELSE Replies(m, "help_all_set")

cmd_setsourcelist(m) ==
  /\ m.cmd = "setsourcelist"
  /\ \/ Ignored(m)
     \/ /\ owner_only(m)
        /\ IF CommandLen(m) < 2 THEN Replies(m, "usage")
           ELSE IF normalize_chat_ref_raises(m.args[1]) THEN Replies(m, "raised")
           ELSE Sets(m, "source_set",
                     [state EXCEPT !.source_x = normalize_chat_ref(m.args[1])])

cmd_settarget(m) ==
  /\ m.cmd = "settarget"
  /\ \/ Ignored(m)
     \/ /\ owner_only(m)
        /\ IF CommandLen(m) < 3 THEN Replies(m, "usage")
           ELSE IF TargetArgRaises(m) THEN Replies(m, "raised")
           ELSE IF ParseInt(m.args[1]) \notin TargetNums
             THEN Replies(m, "unsupported")
           ELSE IF normalize_chat_ref_raises(m.args[2]) THEN Replies(m, "raised")
           ELSE Sets(m, "target_set",
                     [state EXCEPT !.targets[ParseInt(m.args[1])].target_a =
                                      normalize_chat_ref(m.args[2])])

cmd_setlist(m) ==
  /\ m.cmd = "setlist"
  /\ \/ Ignored(m)
     \/ /\ owner_only(m)
        /\ IF CommandLen(m) < 3 THEN Replies(m, "usage")
           ELSE IF TargetArgRaises(m) THEN Replies(m, "raised")
           ELSE IF ParseInt(m.args[1]) \notin TargetNums
             THEN Replies(m, "unsupported")
           ELSE IF normalize_chat_ref_raises(m.args[2]) THEN Replies(m, "raised")
           ELSE Sets(m, "list_set",
                     [state EXCEPT !.targets[ParseInt(m.args[1])].target_list =
                                      normalize_chat_ref(m.args[2])])

cmd_setxrange(m) ==
  /\ m.cmd = "setxrange"
  /\ \/ Ignored(m)
     \/ /\ owner_only(m)
        /\ IF ~Truthy(state.source_x) THEN Replies(m, "need_source")
           ELSE Sets(m, "send_first",
                     [state EXCEPT !.waiting_for = "x_first",
                                   !.x_start = None, !.x_end = None])

\* fault: arming a target's range clears its first endpoint only
cmd_setarange_KeepsEnd(m) ==
  /\ m.cmd = "setarange"
  /\ \/ Ignored(m)
     \/ /\ owner_only(m)
        /\ IF CommandLen(m) < 2 THEN Replies(m, "usage")
           ELSE IF TargetArgRaises(m) THEN Replies(m, "raised")
           ELSE IF ParseInt(m.args[1]) \notin TargetNums
             THEN Replies(m, "unsupported")
           ELSE IF ~Truthy(state.targets[ParseInt(m.args[1])].target_a)
             THEN Replies(m, "need_target")
           ELSE LET n == ParseInt(m.args[1])
                IN  Sets(m, "send_first",
                         [state EXCEPT !.waiting_for = a_first(n),
                                       !.targets[n].a_start = None])

\* main.py 249-261
cmd_setarange(m) ==
  /\ m.cmd = "setarange"
  /\ \/ Ignored(m)
     \/ /\ owner_only(m)
        /\ IF CommandLen(m) < 2 THEN Replies(m, "usage")
           ELSE IF TargetArgRaises(m) THEN Replies(m, "raised")
           ELSE IF ParseInt(m.args[1]) \notin TargetNums
             THEN Replies(m, "unsupported")
           ELSE IF ~Truthy(state.targets[ParseInt(m.args[1])].target_a)
             THEN Replies(m, "need_target")
           ELSE LET n == ParseInt(m.args[1])
                IN  Sets(m, "send_first",
                         [state EXCEPT !.waiting_for = a_first(n),
                                       !.targets[n].a_start = None,
                                       !.targets[n].a_end = None])

cmd_status(m) ==
  /\ m.cmd = "status"
  /\ \/ Ignored(m)
     \/ owner_only(m) /\ Replies(m, "status")

\* a TargetPair cmd_run holds in its local t stays the object it was when
\* STATE is rebound to a new State(): the local stops following the global
Detach(r) ==
  IF r.t.live
    THEN [r EXCEPT !.t = [live |-> FALSE, n |-> r.t.n,
                          pair |-> state.targets[r.t.n]]]
    ELSE r

\* fault: the fields are cleared one by one and waiting_for is forgotten
cmd_reset_KeepsMarker(m) ==
  /\ m.cmd = "reset"
  /\ \/ Ignored(m)
     \/ /\ owner_only(m)
        /\ state' = [State EXCEPT !.waiting_for = state.waiting_for]
        /\ run' = Detach(run)
        /\ ev' = Event(m, "reset_done")
        /\ UNCHANGED <<pc, gen, hist>>

cmd_reset(m) ==
  /\ m.cmd = "reset"
  /\ \/ Ignored(m)
     \/ /\ owner_only(m)
        /\ state' = State
        /\ run' = Detach(run)
        /\ ev' = Event(m, "reset_done")
        /\ UNCHANGED <<pc, gen, hist>>

\* main.py 282-308: STATE after a free text txt, and what the handler did
AfterText(st, txt) ==
  LET w == st.waiting_for
  IN  IF w = "None" THEN [state |-> st, outcome |-> "text_unarmed"]
      ELSE IF w = "x_first"
        THEN [state |-> [st EXCEPT !.x_start = txt, !.waiting_for = "x_last"],
              outcome |-> "send_last"]
      ELSE IF w = "x_last"
        THEN [state |-> [st EXCEPT !.x_end = txt, !.waiting_for = "None"],
              outcome |-> "x_range_set"]
      ELSE IF StartsWithAFirst(w)
        THEN [state |-> [st EXCEPT !.targets[WaitingTarget(w)].a_start = txt,
                                   !.waiting_for = a_last(WaitingTarget(w))],
              outcome |-> "send_last"]
      ELSE IF StartsWithALast(w)
        THEN [state |-> [st EXCEPT !.targets[WaitingTarget(w)].a_end = txt,
                                   !.waiting_for = "None"],
              outcome |-> "a_range_set"]
      ELSE [state |-> st, outcome |-> "text_unarmed"]

handle_text(m) ==
  /\ m.cmd = "text"
  /\ \/ Ignored(m)
     \/ /\ owner_only(m)
        /\ LET after == AfterText(state, PyStr(Strip(m.text)))
           IN  Sets(m, after.outcome, after.state)

(***************************************************************************)
(* The remote platform.  Its chats are a fixed table; whether a call       *)
(* succeeds, and what a fetch or a copy answers, is chosen at each call.   *)
(* A call that names no chat (None) cannot succeed.                        *)
(***************************************************************************)
SrcName == <<"s", "r", "c">>
TgtName == <<"t", "g", "t">>
LstName == <<"l", "s", "t">>

RemoteChats ==
  { [id |-> -1001, username |-> PyStr(SrcName)],
    [id |-> -1002, username |-> None],
    [id |-> -1003, username |-> PyStr(TgtName)] }

\* get_chat(chat_ref) can succeed
ChatKnown(ref) ==
  \E c \in RemoteChats :
    \/ ref.kind = "int" /\ c.id = ref.v
    \/ ref.kind = "str" /\ c.username = ref

ChatOf(ref) ==
  CHOOSE c \in RemoteChats :
    \/ ref.kind = "int" /\ c.id = ref.v
    \/ ref.kind = "str" /\ c.username = ref

\* the seconds a FloodWait may carry
FloodValues == {3, 5}

\* what copy_message answers
CopyOutcomes ==
  {[kind |-> "ok", value |-> 0], [kind |-> "fail", value |-> 0]}
    \cup {[kind |-> "flood", value |-> v] : v \in FloodValues}

(***************************************************************************)
(* The locals of cmd_run (main.py 326-368) and what is observed of a run.  *)
(***************************************************************************)
NoT == [live |-> FALSE, n |-> 0, pair |-> TargetPair]

NoGen == iter_range(0, 0, 0, DefaultChunk)

NoCaption == [text |-> <<>>, link |-> make_post_link(None, 0, 0)]

RunLocals ==
  [x_start_id |-> 0, x_end_id |-> 0,
   target_specs |-> [n \in TargetNums |-> <<0, 0>>],
   chat_x |-> 0,
   n |-> 0,
   chat_ref |-> None,
   a_chat_ids |-> [n \in TargetNums |-> 0],
   a_usernames |-> [n \in TargetNums |-> None],
   indexes |-> [n \in TargetNums |-> EmptyIndex],
   index |-> EmptyIndex,
   buf |-> <<>>,
   processed_x |-> 0,
   total_sent |-> [n \in TargetNums |-> 0],
   total_not_found |-> [n \in TargetNums |-> 0],
   x_id |-> 0,
   key |-> <<>>,
   a_mid |-> 0,
   t |-> NoT,
   to_chat |-> None,
   final_caption |-> NoCaption,
   flood |-> 0]

NoSummary == [reported |-> FALSE, processed_x |-> 0,
              total_sent |-> [n \in TargetNums |-> 0],
              total_not_found |-> [n \in TargetNums |-> 0]]

NoHist ==
  [snap |-> State,       \* STATE when the run command was handled
   requested |-> <<>>,   \* the ids asked of get_messages by the generator
   fetched |-> <<>>,     \* the answers to them
   yielded |-> <<>>,     \* the messages the generator yielded
   lookups |-> <<>>,     \* the index lookups of the relay phase
   relay |-> <<>>,       \* the calls of the safe_copy in progress
   error |-> "none",     \* the exception that ended the run
   summary |-> NoSummary]

DriverEvent == [from_user |-> None, outcome |-> "driver"]

Running == pc \notin {"idle", "done", "aborted"}

\* an exception leaves cmd_run: the coroutine ends where it is
Abort(error) ==
  /\ pc' = "aborted"
  /\ hist' = [hist EXCEPT !.error = error]
  /\ ev' = DriverEvent
  /\ UNCHANGED <<state, run, gen>>

\* a step of the coroutine that ends at the next await
Goto(c) ==
  /\ pc' = c.pc
  /\ run' = c.run
  /\ gen' = c.gen
  /\ hist' = c.hist
  /\ ev' = DriverEvent
  /\ UNCHANGED state

Cont(p, r, g, h) == [pc |-> p, run |-> r, gen |-> g, hist |-> h]

(***************************************************************************)
(* cmd_run: validation and link parsing (main.py 311-341).                 *)
(***************************************************************************)
\* fault: the destination of the target is not checked
TargetCheck_NoList(t) ==
  IF ~Truthy(t.target_a) THEN "target_missing"
  ELSE IF ~(Truthy(t.a_start) /\ Truthy(t.a_end)) THEN "a_range_missing"
  ELSE "ok"

\* the checks of one target (main.py 321-324)
TargetCheck(t) ==
  IF ~(Truthy(t.target_a) /\ Truthy(t.target_list)) THEN "target_missing"
  ELSE IF ~(Truthy(t.a_start) /\ Truthy(t.a_end)) THEN "a_range_missing"
  ELSE "ok"

\* the first target, in ascending order, a check of which fails
FirstBad(checked) ==
  IF \E n \in TargetNums : checked[n] # "ok"
    THEN checked[CHOOSE n \in TargetNums :
                   /\ checked[n] # "ok"
                   /\ \A k \in TargetNums : k < n => checked[k] = "ok"]
    ELSE "ok"

\* main.py 314-324
Validate(st) ==
  IF ~Truthy(st.source_x) THEN "source_missing"
  ELSE IF ~(Truthy(st.x_start) /\ Truthy(st.x_end)) THEN "x_range_missing"
  ELSE FirstBad([n \in TargetNums |-> TargetCheck(st.targets[n])])

\* parse_tme_link(x) raises an Exception: link.strip() of a value that is no
\* str, or the ValueError of the parse
ParseRaises(x) == x.kind # "str" \/ parse_tme_link_raises(x.v)

\* fault: the last link of a target is not parsed before the run starts
TargetParse_StartOnly(t) ==
  IF ParseRaises(t.a_start) THEN "a_parse_error" ELSE "ok"

\* main.py 336-340
TargetParse(t) ==
  IF ParseRaises(t.a_start) \/ ParseRaises(t.a_end) THEN "a_parse_error" ELSE "ok"

\* main.py 327-341
ParseLinks(st) ==
  IF ParseRaises(st.x_start) \/ ParseRaises(st.x_end) THEN "x_parse_error"
  ELSE FirstBad([n \in TargetNums |-> TargetParse(st.targets[n])])

\* main.py 326-344: the locals once the links are parsed, and the first await
StartRun(st) ==
  LET r == [RunLocals EXCEPT
              !.x_start_id = parse_tme_link(st.x_start.v).msg_id,
              !.x_end_id = parse_tme_link(st.x_end.v).msg_id,
              !.target_specs =
                 [n \in TargetNums |->
                    <<parse_tme_link(st.targets[n].a_start.v).msg_id,
                      parse_tme_link(st.targets[n].a_end.v).msg_id>>]]
      h == [NoHist EXCEPT !.snap = st]
  IN  IF st.source_x.kind = "int"
        THEN Cont("reply_progress", [r EXCEPT !.chat_x = st.source_x.v], NoGen, h)
        ELSE Cont("resolve_x", [r EXCEPT !.chat_ref = st.source_x], NoGen, h)

\* one run at a time: the run command is not modelled while a run is suspended
cmd_run(m) ==
  /\ m.cmd = "run"
  /\ \/ Ignored(m)
     \/ /\ owner_only(m)
        /\ IF Validate(state) # "ok" THEN Replies(m, Validate(state))
           ELSE IF ParseLinks(state) # "ok" THEN Replies(m, ParseLinks(state))
           ELSE /\ ~Running
                /\ pc' = StartRun(state).pc
                /\ run' = StartRun(state).run
                /\ gen' = StartRun(state).gen
                /\ hist' = StartRun(state).hist
                /\ ev' = Event(m, "started")
                /\ UNCHANGED state

(***************************************************************************)
(* cmd_run: resolving the chats and building the indexes (main.py 343-364).*)
(***************************************************************************)
\* resolve_chat_id (main.py 50-54) returns without a remote call
IsResolved(chat_ref) == chat_ref.kind = "int"

\* a new generator: nothing requested, fetched or yielded yet
NewScan(h) == [h EXCEPT !.requested = <<>>, !.fetched = <<>>, !.yielded = <<>>]

\* what one answered batch adds to the observation
Scanned(h, g, answer) ==
  [h EXCEPT !.requested = @ \o IterBatchIds(g),
            !.fetched = @ \o answer,
            !.yielded = @ \o IterYield(answer)]

\* main.py 353-355: the loop body for target n up to its first await
BeginTarget(r, n, h) ==
  LET t == state.targets[n]
  IN  IF IsResolved(t.target_a)
        THEN Cont("username",
                  [r EXCEPT !.n = n, !.a_chat_ids[n] = t.target_a.v], NoGen, h)
        ELSE Cont("resolve_a",
                  [r EXCEPT !.n = n, !.chat_ref = t.target_a], NoGen, h)

\* main.py 344: get_chat(STATE.source_x) answers
RunResolveX ==
  /\ pc = "resolve_x"
  /\ \/ /\ ChatKnown(run.chat_ref)
        /\ Goto(Cont("reply_progress",
                     [run EXCEPT !.chat_x = ChatOf(run.chat_ref).id,
                                 !.chat_ref = None], gen, hist))
     \/ Abort("get_chat")

\* main.py 347: the reply is sent; the loop over the targets begins
RunReplyProgress ==
  /\ pc = "reply_progress"
  /\ Goto(BeginTarget(run, 1, hist))

\* main.py 355: get_chat(t.target_a) answers
RunResolveA ==
  /\ pc = "resolve_a"
  /\ \/ /\ ChatKnown(run.chat_ref)
        /\ Goto(Cont("username",
                     [run EXCEPT !.a_chat_ids[run.n] = ChatOf(run.chat_ref).id,
                                 !.chat_ref = None], gen, hist))
     \/ Abort("get_chat")

\* main.py 357-360: resolve_username answers; build_index_for_target begins
RunUsername ==
  /\ pc = "username"
  /\ \/ /\ ChatKnown(PyInt(run.a_chat_ids[run.n]))
        /\ Goto(Cont("index",
                     [run EXCEPT !.a_usernames[run.n] =
                                    ChatOf(PyInt(run.a_chat_ids[run.n])).username,
                                 !.index = EmptyIndex],
                     iter_range(run.a_chat_ids[run.n],
                                run.target_specs[run.n][1],
                                run.target_specs[run.n][2], DefaultChunk),
                     NewScan(hist)))
     \/ Abort("get_chat")

\* main.py 96-102, 361: a batch of the target's range answers
RunIndexBatch(M) ==
  /\ pc = "index"
  /\ \/ \E answer \in Answers(IterBatchIds(gen), M) :
          LET index == IndexAll(run.index, IterYield(answer))
              g == IterNext(gen)
              h == Scanned(hist, gen, answer)
          IN  IF IterExhausted(g)
                THEN Goto(Cont("edit_indexed",
                               [run EXCEPT !.index = index,
                                           !.indexes[run.n] = index], g, h))
                ELSE Goto(Cont("index", [run EXCEPT !.index = index], g, h))
     \/ Abort("get_messages")

\* fault: the loop over the targets ends after its first pass
RunEditIndexed_FirstOnly ==
  /\ pc = "edit_indexed"
  /\ Goto(Cont("edit_ready", [run EXCEPT !.n = 0], NoGen, hist))

\* main.py 362: the progress edit is sent; the next target, or the relay phase
RunEditIndexed ==
  /\ pc = "edit_indexed"
  /\ IF run.n + 1 \in TargetNums
       THEN Goto(BeginTarget(run, run.n + 1, hist))
       ELSE Goto(Cont("edit_ready", [run EXCEPT !.n = 0], NoGen, hist))

\* main.py 364-370: the counters, and the generator over the source range
RunEditReady ==
  /\ pc = "edit_ready"
  /\ Goto(Cont("scan",
               [run EXCEPT !.processed_x = 0,
                           !.total_sent = [n \in TargetNums |-> 0],
                           !.total_not_found = [n \in TargetNums |-> 0]],
               iter_range(run.chat_x, run.x_start_id, run.x_end_id, DefaultChunk),
               NewScan(hist)))

(***************************************************************************)
(* cmd_run: the relay phase (main.py 370-401) and safe_copy (105-111).     *)
(***************************************************************************)
\* fault: the counter is incremented after the test of the key
SourceBody_CountsMatches(r, x_msg) ==
  IF ~HasPhoto(x_msg) THEN [run |-> r, match |-> FALSE]
  ELSE LET key == clean_caption(CaptionOrEmpty(x_msg))
       IN  IF key = <<>> THEN [run |-> r, match |-> FALSE]
           ELSE [run |-> [r EXCEPT !.processed_x = @ + 1, !.key = key,
                                   !.x_id = x_msg.id],
                 match |-> TRUE]

\* fault: the test of the key is missing
SourceBody_NoEmptySkip(r, x_msg) ==
  IF ~HasPhoto(x_msg) THEN [run |-> r, match |-> FALSE]
  ELSE [run |-> [r EXCEPT !.processed_x = @ + 1,
                          !.key = clean_caption(CaptionOrEmpty(x_msg)),
                          !.x_id = x_msg.id],
        match |-> TRUE]

\* main.py 371-376: whether the source message goes on to the targets, with
\* the counter and the key
SourceBody(r, x_msg) ==
  IF ~HasPhoto(x_msg) THEN [run |-> r, match |-> FALSE]
  ELSE LET counted == [r EXCEPT !.processed_x = @ + 1]
           key == clean_caption(CaptionOrEmpty(x_msg))
       IN  IF key = <<>> THEN [run |-> counted, match |-> FALSE]
           ELSE [run |-> [counted EXCEPT !.key = key, !.x_id = x_msg.id],
                 match |-> TRUE]

\* main.py 384: not a_mid
IsMiss(a_mid) == ~Truthy(a_mid)

Lookup(r, n) == [x_id |-> r.x_id, n |-> n, key |-> r.key]

RECURSIVE NextSource(_)
RECURSIVE TryTargets(_, _)

\* fault: a miss leaves the loop over the targets (break for continue)
TryTargets_StopAtMiss(c, n) ==
  IF n \notin TargetNums THEN NextSource(c)
  ELSE LET a_mid == IndexGet(c.run.indexes[n], c.run.key)
           h == [c.hist EXCEPT !.lookups = Append(@, Lookup(c.run, n))]
       IN  IF IsMiss(a_mid)
             THEN NextSource(
                    Cont(c.pc, [c.run EXCEPT !.total_not_found[n] = @ + 1],
                         c.gen, h))
             ELSE Cont("fetch",
                       [c.run EXCEPT !.n = n, !.a_mid = a_mid.v,
                                     !.t = [live |-> TRUE, n |-> n,
                                            pair |-> TargetPair]],
                       c.gen, h)

\* main.py 379-389: the targets from n on, up to the fetch of an indexed message
TryTargets(c, n) ==
  IF n \notin TargetNums THEN NextSource(c)
  ELSE LET a_mid == IndexGet(c.run.indexes[n], c.run.key)
           h == [c.hist EXCEPT !.lookups = Append(@, Lookup(c.run, n))]
       IN  IF IsMiss(a_mid)
             THEN TryTargets(
                    Cont(c.pc, [c.run EXCEPT !.total_not_found[n] = @ + 1],
                         c.gen, h), n + 1)
             ELSE Cont("fetch",
                       [c.run EXCEPT !.n = n, !.a_mid = a_mid.v,
                                     !.t = [live |-> TRUE, n |-> n,
                                            pair |-> TargetPair]],
                       c.gen, h)

\* main.py 370-376: the yielded messages in turn, then the next batch or the summary
NextSource(c) ==
  IF c.run.buf = <<>>
    THEN Cont(IF IterExhausted(c.gen) THEN "summary" ELSE "scan",
              [c.run EXCEPT !.n = 0, !.key = <<>>, !.x_id = 0], c.gen, c.hist)
    ELSE LET b == SourceBody([c.run EXCEPT !.buf = Tail(@)], Head(c.run.buf))
         IN  IF b.match
               THEN TryTargets(Cont(c.pc, b.run, c.gen, c.hist), 1)
               ELSE NextSource(Cont(c.pc, b.run, c.gen, c.hist))

\* main.py 370, 84: a batch of the source range answers
RunScanBatch(M) ==
  /\ pc = "scan"
  /\ \/ \E answer \in Answers(IterBatchIds(gen), M) :
          Goto(NextSource(Cont(pc, [run EXCEPT !.buf = IterYield(answer)],
                               IterNext(gen), Scanned(hist, gen, answer))))
     \/ Abort("get_messages")

\* the TargetPair the local t names
Deref(t) == IF t.live THEN state.targets[t.n] ELSE t.pair

\* main.py 395-396
FinalCaption(a_msg, link) == [text |-> Strip(CaptionOrEmpty(a_msg)), link |-> link]

CopyCall(r) ==
  [op |-> "copy", to_chat |-> r.to_chat, from_chat |-> r.a_chat_ids[r.n],
   msg_id |-> r.a_mid, caption |-> r.final_caption, secs |-> 0]

SleepCall(secs) ==
  [op |-> "sleep", to_chat |-> None, from_chat |-> 0, msg_id |-> 0,
   caption |-> NoCaption, secs |-> secs]

\* fault: the test "not a_msg.photo" is missing
IsStale_MissingOnly(a_msg) == ~IsLive(a_msg)

\* main.py 390
IsStale(a_msg) == ~IsLive(a_msg) \/ ~HasPhoto(a_msg)

\* main.py 389-398: the indexed message answers; the first copy_message is sent.
\* ev records what the fetch answered.
RunFetchIndexed(M) ==
  /\ pc = "fetch"
  /\ \/ \E a \in M :
          LET a_msg == WithId(a, run.a_mid)
              r == [run EXCEPT
                      !.to_chat = Deref(run.t).target_list,
                      !.t = NoT,
                      !.final_caption =
                         FinalCaption(a_msg,
                           make_post_link(run.a_usernames[run.n],
                                          run.a_chat_ids[run.n],
                                          run.a_mid))]
              c == IF IsStale(a_msg)
                     THEN TryTargets(
                            Cont(pc, [run EXCEPT !.total_not_found[run.n] = @ + 1,
                                                 !.t = NoT, !.a_mid = 0],
                                 gen, hist), run.n + 1)
                     ELSE Cont("copy", r, gen,
                               [hist EXCEPT !.relay = <<CopyCall(r)>>])
          IN  /\ pc' = c.pc
              /\ run' = c.run
              /\ gen' = c.gen
              /\ hist' = c.hist
              /\ ev' = [from_user |-> None, outcome |-> a.kind]
              /\ UNCHANGED state
     \/ Abort("get_messages")

\* main.py 106-110: where the first copy_message's answer leads
OnCopy(outcome) ==
  CASE outcome.kind = "ok" -> "throttle"
    [] outcome.kind = "flood" -> "flood_sleep"
    [] OTHER -> "aborted"

\* fault: the retry is answered like the first attempt, so it backs off again
OnRetry_Again(outcome) == OnCopy(outcome)

\* main.py 111: where the answer to the retry leads
OnRetry(outcome) == IF outcome.kind = "ok" THEN "throttle" ELSE "aborted"

\* copy_message(to_chat, ...) can succeed
CanCopyTo(to_chat) == to_chat.kind # "none"

\* fault: a retry that is rate limited starts the safe_copy over
Answered_StartsOver(next, outcome) ==
  IF next = "aborted" /\ outcome.kind = "flood"
    THEN Goto(Cont("copy", [run EXCEPT !.flood = 0], gen,
                   [hist EXCEPT !.relay = <<CopyCall(run)>>]))
  ELSE IF next = "aborted"
    THEN Abort("copy_failed")
  ELSE IF next = "flood_sleep"
    THEN Goto(Cont("flood_sleep", [run EXCEPT !.flood = outcome.value], gen,
                   [hist EXCEPT !.relay = Append(@, SleepCall(outcome.value))]))
  ELSE Goto(Cont("throttle",
                 [run EXCEPT !.total_sent[run.n] = @ + 1, !.flood = 0],
                 gen, hist))

\* fault: a failed copy is swallowed and the loop goes on to the next target
Answered_SwallowsFailure(next, outcome) ==
  IF next = "aborted"
    THEN Goto(TryTargets(Cont(pc, run, gen, hist), run.n + 1))
  ELSE IF next = "flood_sleep"
    THEN Goto(Cont("flood_sleep", [run EXCEPT !.flood = outcome.value], gen,
                   [hist EXCEPT !.relay = Append(@, SleepCall(outcome.value))]))
  ELSE Goto(Cont("throttle",
                 [run EXCEPT !.total_sent[run.n] = @ + 1, !.flood = 0],
                 gen, hist))

\* fault: the sent counter counts attempts, the rate-limited one too
Answered_CountsAttempts(next, outcome) ==
  IF next = "aborted"
    THEN Abort(IF outcome.kind = "flood" THEN "FloodWait" ELSE "copy_failed")
  ELSE IF next = "flood_sleep"
    THEN Goto(Cont("flood_sleep",
                   [run EXCEPT !.total_sent[run.n] = @ + 1,
                               !.flood = outcome.value], gen,
                   [hist EXCEPT !.relay = Append(@, SleepCall(outcome.value))]))
  ELSE Goto(Cont("throttle",
                 [run EXCEPT !.total_sent[run.n] = @ + 1, !.flood = 0],
                 gen, hist))

\* an answer of copy_message: main.py 399 after a success
Answered(next, outcome) ==
  IF next = "aborted"
    THEN Abort(IF outcome.kind = "flood" THEN "FloodWait" ELSE "copy_failed")
  ELSE IF next = "flood_sleep"
    THEN Goto(Cont("flood_sleep", [run EXCEPT !.flood = outcome.value], gen,
                   [hist EXCEPT !.relay = Append(@, SleepCall(outcome.value))]))
  ELSE Goto(Cont("throttle",
                 [run EXCEPT !.total_sent[run.n] = @ + 1, !.flood = 0],
                 gen, hist))

\* main.py 107-110: the first copy_message answers
RunCopy ==
  /\ pc = "copy"
  /\ \E outcome \in CopyOutcomes :
       /\ outcome.kind = "ok" => CanCopyTo(run.to_chat)
       /\ Answered(OnCopy(outcome), outcome)

\* main.py 110-111: the sleep of e.value seconds ends; the retry is sent
RunFloodSleep ==
  /\ pc = "flood_sleep"
  /\ Goto(Cont("retry", run, gen,
               [hist EXCEPT !.relay = Append(@, CopyCall(run))]))

\* main.py 111: the retry answers
RunRetry ==
  /\ pc = "retry"
  /\ \E outcome \in CopyOutcomes :
       /\ outcome.kind = "ok" => CanCopyTo(run.to_chat)
       /\ Answered(OnRetry(outcome), outcome)

\* main.py 401: the throttle sleep ends; the next target
RunThrottle ==
  /\ pc = "throttle"
  /\ Goto(TryTargets(Cont(pc, [run EXCEPT !.to_chat = None, !.a_mid = 0,
                                          !.final_caption = NoCaption],
                          gen, [hist EXCEPT !.relay = <<>>]), run.n + 1))

\* main.py 403-410: the summary is sent
RunSummary ==
  /\ pc = "summary"
  /\ Goto(Cont("done", run, gen,
               [hist EXCEPT !.summary =
                  [reported |-> TRUE, processed_x |-> run.processed_x,
                   total_sent |-> run.total_sent,
                   total_not_found |-> run.total_not_found]]))

(***************************************************************************)
(* Inputs: the messages that arrive, and what the remote platform holds.   *)
(***************************************************************************)
\* message.from_user: absent, the owner, somebody else
Senders == {None, PyInt(OWNER_ID), PyInt(OWNER_ID + 1)}

\* the argument <n> of a command
NArgs == {<<"1">>, <<"2">>, <<"3">>, <<"x">>}

\* a link to message id (one digit)
LinkText(id) == <<"t", ".", "m", "e", "/", "a", "/", Digits[id + 1]>>

PaddedLink == <<" ", "h", "t", "t", "p", "s", ":", "/", "/", "T", ".", "m", "e",
                "/", "c", "/", "7", "/", "1", " ">>
BadLink == <<"o", "o", "p", "s">>

\* the messages of senders with the arguments <n> among nargs, a chat among
\* refs, or a text among texts
Messages(senders, nargs, refs, texts) ==
  {Message(f, c, <<>>, <<>>) :
     f \in senders,
     c \in {"start", "setsourcelist", "settarget", "setlist", "setxrange",
            "setarange", "status", "reset", "run"}}
  \cup {Message(f, "setsourcelist", <<r>>, <<>>) : f \in senders, r \in refs}
  \cup {Message(f, c, <<n>>, <<>>) :
          f \in senders, c \in {"settarget", "setlist", "setarange"}, n \in nargs}
  \cup {Message(f, c, <<n, r>>, <<>>) :
          f \in senders, c \in {"settarget", "setlist"}, n \in nargs, r \in refs}
  \cup {Message(f, "text", <<>>, t) : f \in senders, t \in texts}

\* the messages that drive the configuration machine
CfgMessages ==
  Messages({PyInt(OWNER_ID)}, NArgs, {<<"@", "s", "r", "c">>}, {PaddedLink})
    \cup Messages(Senders \ {PyInt(OWNER_ID)}, {<<"1">>},
                  {<<"@", "s", "r", "c">>}, {PaddedLink})

\* the run command, as it arrives at a completed configuration
RunMessages == Messages(Senders, {}, {}, {})

\* the operator's messages while a run is in progress
OpsMessages ==
  Messages({PyInt(OWNER_ID)}, {<<"1">>, <<"2">>}, {<<"-", "1", "0", "0", "2">>},
           {BadLink})

CapAB == <<"A", " ", " ", "b">>
CapABUrl == <<"a", " ", "b", " ", "h", "t", "t", "p", ":", "/", "/", "x">>
CapUrl == <<"t", ".", "m", "e", "/", "x">>
CapC == <<"c">>

\* what a fetch may answer for one id during a run
RunMsgs ==
  {AbsentMsg, EmptyMsg, Msg("text", PyStr(CapC)), Msg("photo", PyStr(CapAB)),
   Msg("photo", PyStr(CapUrl))}

\* what a fetch may answer for one id when a range is scanned on its own
ScanMsgs ==
  {AbsentMsg, EmptyMsg, Msg("text", PyStr(CapAB)), Msg("photo", PyStr(CapAB)),
   Msg("photo", PyStr(CapABUrl)), Msg("photo", PyStr(CapUrl)),
   Msg("photo", None), Msg("photo", PyStr(CapC))}

(***************************************************************************)
(* Initial states.                                                         *)
(***************************************************************************)
\* main.py 139-151: STATE with the defaults of the environment, each set or not
EnvStates ==
  { [State EXCEPT !.source_x = x,
                  !.targets[1].target_a = a1, !.targets[1].target_list = l1,
                  !.targets[2].target_a = a2, !.targets[2].target_list = l2] :
      x \in {None, normalize_chat_ref(<<"@">> \o SrcName)},
      a1 \in {None, normalize_chat_ref(<<"-", "1", "0", "0", "2">>)},
      l1 \in {None, normalize_chat_ref(<<"@">> \o LstName)},
      a2 \in {None, normalize_chat_ref(<<"@">> \o TgtName)},
      l2 \in {None, normalize_chat_ref(<<"-", "1", "0", "0", "4">>)} }

\* a STATE the commands have completed: the chats, and the ranges as links
Ready(source_x, xs, xe, a1s, a1e, a2s, a2e) ==
  [source_x |-> source_x,
   x_start |-> PyStr(LinkText(xs)), x_end |-> PyStr(LinkText(xe)),
   targets |->
     [n \in TargetNums |->
        IF n = 1
          THEN [target_a |-> PyInt(-1002), target_list |-> PyStr(LstName),
                a_start |-> PyStr(LinkText(a1s)), a_end |-> PyStr(LinkText(a1e))]
          ELSE [target_a |-> PyStr(TgtName), target_list |-> PyInt(-1004),
                a_start |-> PyStr(LinkText(a2s)), a_end |-> PyStr(LinkText(a2e))]],
   waiting_for |-> "None"]

NoEvent == [from_user |-> None, outcome |-> "none"]

Idle ==
  /\ pc = "idle"
  /\ run = RunLocals
  /\ gen = NoGen
  /\ ev = NoEvent
  /\ ops = 0
  /\ hist = NoHist

\* the configuration machine from process start
InitCfg ==
  /\ state \in EnvStates
  /\ Idle

\* a completed configuration, before the run command
Init ==
  /\ state \in {Ready(x, 1, MaxId, 1, MaxId, MaxId, 1) :
                  x \in {PyInt(-1001), PyStr(SrcName)}}
  /\ Idle

(***************************************************************************)
(* Next-state relations.                                                   *)
(***************************************************************************)
Operator(MS) ==
  \/ \E m \in MS : cmd_start(m)
  \/ \E m \in MS : cmd_setsourcelist(m)
  \/ \E m \in MS : cmd_settarget(m)
  \/ \E m \in MS : cmd_setlist(m)
  \/ \E m \in MS : cmd_setxrange(m)
  \/ \E m \in MS : cmd_setarange(m)
  \/ \E m \in MS : cmd_status(m)
  \/ \E m \in MS : cmd_reset(m)
  \/ \E m \in MS : handle_text(m)
  \/ \E m \in MS : cmd_run(m)

Driver(M) ==
  \/ RunResolveX
  \/ RunReplyProgress
  \/ RunResolveA
  \/ RunUsername
  \/ RunIndexBatch(M)
  \/ RunEditIndexed
  \/ RunEditReady
  \/ RunScanBatch(M)
  \/ RunFetchIndexed(M)
  \/ RunCopy
  \/ RunFloodSleep
  \/ RunRetry
  \/ RunThrottle
  \/ RunSummary

\* the configuration machine, up to the run command that starts a run
NextCfg ==
  /\ pc = "idle"
  /\ Operator(CfgMessages)
  /\ ops' = ops

SpecCfg == InitCfg /\ [][NextCfg]_vars

\* a run from a completed configuration, the operator silent after the run command
Next ==
  \/ /\ pc = "idle"
     /\ \E m \in RunMessages : cmd_run(m)
     /\ ops' = ops
  \/ Driver(RunMsgs) /\ ops' = ops

Spec == Init /\ [][Next]_vars

\* the same run, with up to MaxOps messages of the operator handled at its
\* suspension points or after it
NextOps ==
  \/ /\ pc = "idle"
     /\ \E m \in RunMessages : cmd_run(m)
     /\ ops' = ops
  \/ /\ pc # "idle"
     /\ ops < MaxOps
     /\ Operator(OpsMessages)
     /\ ops' = ops + 1
  \/ Driver(RunMsgs) /\ ops' = ops

SpecOps == Init /\ [][NextOps]_vars

(***************************************************************************)
(* A range scanned on its own: build_index_for_target over iter_range, for *)
(* every pair (start, end) and every batch size, from the await of its     *)
(* first batch.                                                            *)
(***************************************************************************)
ScanStart(start_id, end_id, chunk) ==
  LET st == Ready(PyInt(-1001), 1, 1, start_id, end_id, 1, 1)
  IN  /\ state = st
      /\ pc = "index"
      /\ run = [StartRun(st).run EXCEPT !.chat_x = -1001, !.n = 1,
                                        !.a_chat_ids[1] = -1002]
      /\ gen = iter_range(-1002, start_id, end_id, chunk)
      /\ ev = DriverEvent
      /\ ops = 0
      /\ hist = StartRun(st).hist

InitScan ==
  \E start_id \in 1..MaxScanId, end_id \in 1..MaxScanId, chunk \in 1..MaxChunk :
    ScanStart(start_id, end_id, chunk)

NextScan == RunIndexBatch(ScanMsgs) /\ ops' = ops

SpecScan == InitScan /\ [][NextScan]_vars

(***************************************************************************)
(* A run command at a STATE whose range links are anything the free texts  *)
(* may have stored: a link, or a text LINK_RE or int() does not accept.    *)
(***************************************************************************)
\* the message id is missing
NoIdLink == <<"t", ".", "m", "e", "/", "a", "/">>
\* LINK_RE matches, but the chat of a /c/ link is no number
CNameLink == <<"t", ".", "m", "e", "/", "c", "/", "x", "/", "1">>

\* BadLink holds no t.me/ at all
MalformedLinks == {BadLink, NoIdLink, CNameLink}

StoredLinks == {LinkText(MaxId)} \cup MalformedLinks

WithLinks(st, xs, xe, a1s, a1e, a2s, a2e) ==
  [st EXCEPT !.x_start = PyStr(xs), !.x_end = PyStr(xe),
             !.targets[1].a_start = PyStr(a1s), !.targets[1].a_end = PyStr(a1e),
             !.targets[2].a_start = PyStr(a2s), !.targets[2].a_end = PyStr(a2e)]

InitLinks ==
  /\ state \in {WithLinks(Ready(x, 1, 1, 1, 1, 1, 1), xs, xe, a1s, a1e, a2s, a2e) :
                  x \in {PyInt(-1001), PyStr(SrcName)},
                  xs \in StoredLinks, xe \in StoredLinks,
                  a1s \in StoredLinks, a1e \in StoredLinks,
                  a2s \in StoredLinks, a2e \in StoredLinks}
  /\ Idle

SpecLinks == InitLinks /\ [][Next]_vars

(***************************************************************************)
(* clean_caption on its own: one photo is indexed, its caption any text of *)
(* at most MaxCaptionLen characters that make up a link, a space and the   *)
(* ligature whose case folding is "st".                                    *)
(***************************************************************************)
Captions ==
  UNION {[1..n -> {"ST_LIG", ".", "m", "e", "/", "x", " "}] : n \in 0..MaxCaptionLen}

NextCaption ==
  /\ RunIndexBatch({Msg("photo", PyStr(c)) : c \in Captions})
  /\ ops' = ops

SpecCaption == ScanStart(1, 1, 1) /\ [][NextCaption]_vars

(***************************************************************************)
(* Properties.                                                             *)
(***************************************************************************)
Owner == PyInt(OWNER_ID)

IsCopy(call) == call.op = "copy"
IsSleep(call) == call.op = "sleep"

\* the calls a safe_copy may have made: a copy, then at most one sleep and
\* one retry of the same copy
RetryOnceShape(calls) ==
  /\ Len(calls) <= 3
  /\ Len(calls) >= 1 => IsCopy(calls[1])
  /\ Len(calls) >= 2 => IsSleep(calls[2]) /\ calls[2].secs \in FloodValues
  /\ Len(calls) = 3 => calls[3] = calls[1]

\* C1: a relay call makes at most two copy attempts: after a first attempt
\* answered RateLimited(N) it sleeps N once and retries the same copy once;
\* when the retry is rate limited too the run ends with that error, no step
\* of the run follows, and no summary is reported.
C1_RetryOnce ==
  /\ [](/\ RetryOnceShape(hist.relay)
        /\ pc = "copy" => Len(hist.relay) = 1
        /\ pc = "flood_sleep" =>
             Len(hist.relay) = 2 /\ hist.relay[2].secs = run.flood
        /\ pc = "retry" => Len(hist.relay) = 3
        /\ pc = "aborted" =>
             ~hist.summary.reported /\ ~ENABLED Driver(RunMsgs))
  /\ [][/\ pc = "copy" /\ pc' = "flood_sleep" =>
             \E v \in FloodValues :
               hist'.relay = Append(hist.relay, SleepCall(v))
        /\ pc = "flood_sleep" =>
             pc' = "retry" /\ hist'.relay = Append(hist.relay, hist.relay[1])
        /\ pc = "retry" =>
             \/ /\ pc' = "throttle"
                /\ run'.total_sent[run.n] = run.total_sent[run.n] + 1
             \/ /\ pc' = "aborted"
                /\ hist'.error \in {"FloodWait", "copy_failed"}
                /\ UNCHANGED <<run, gen>>
        /\ pc = "aborted" => UNCHANGED <<pc, run, gen, hist>>]_vars

\* the retry was rate limited too: the run has ended after two attempts
C1_Witness ==
  /\ pc = "aborted"
  /\ hist.error = "FloodWait"
  /\ Len(hist.relay) = 3
  /\ hist.relay[2].secs = 5

\* C2: while a run is in progress, the chat each target is resolved from and
\* the destination each copy is sent to are those STATE held when the run
\* command was handled.
C2_Snapshot ==
  /\ pc = "resolve_a" => run.chat_ref = hist.snap.targets[run.n].target_a
  /\ pc = "username" /\ IsResolved(hist.snap.targets[run.n].target_a) =>
       run.a_chat_ids[run.n] = hist.snap.targets[run.n].target_a.v
  /\ pc \in {"copy", "flood_sleep", "retry"} =>
       run.to_chat = hist.snap.targets[run.n].target_list

\* the positions of the relay phase at which the run is suspended or done
RelayPhase ==
  pc \in {"scan", "fetch", "copy", "flood_sleep", "retry", "throttle",
          "summary", "done"}

\* the source messages the loop has taken from the generator so far
Consumed == SubSeq(hist.yielded, 1, Len(hist.yielded) - Len(run.buf))

IsPhotoMsg(m) == m.kind = "photo"

KeyOf(m) == clean_caption(IF m.caption.kind = "str" THEN m.caption.v ELSE <<>>)

IsKeyedPhoto(m) == IsPhotoMsg(m) /\ KeyOf(m) # <<>>

Photos(msgs) == Cardinality({i \in 1..Len(msgs) : IsPhotoMsg(msgs[i])})

KeyedPhotos(msgs) == Cardinality({i \in 1..Len(msgs) : IsKeyedPhoto(msgs[i])})

\* C3 as stated: the processed counter counts the source photos whose
\* normalized caption is not empty.
C3_ProcessedKeyed ==
  pc = "done" => hist.summary.processed_x = KeyedPhotos(hist.yielded)

\* C3 amended: the processed counter counts the source photos, whatever
\* their caption; a message that is no photo is never counted.
C3_ProcessedPhotos ==
  /\ RelayPhase => run.processed_x = Photos(Consumed)
  /\ pc = "done" =>
       /\ hist.summary.reported
       /\ hist.summary.processed_x = Photos(hist.fetched)

\* a run reports processed = 2 for two photos of which one has an empty key,
\* and one for a photo and a message that is no photo
C3_Witness ==
  /\ pc = "done"
  /\ hist.summary.processed_x = 2
  /\ KeyedPhotos(hist.yielded) = 1

\* C4: once the reset command is handled, the source channel, the source
\* range, every target's channel, destination and range, and the marker of
\* the awaited input are unset.
C4_ResetClears ==
  ev.outcome = "reset_done" =>
    /\ state.source_x = None
    /\ state.x_start = None
    /\ state.x_end = None
    /\ \A n \in TargetNums :
         /\ state.targets[n].target_a = None
         /\ state.targets[n].target_list = None
         /\ state.targets[n].a_start = None
         /\ state.targets[n].a_end = None
    /\ state.waiting_for = "None"

\* ev.outcome = "reset_done" is the state right after the reset command
C4_Witness ==
  /\ ev.outcome = "reset_done"
  /\ ev.from_user = Owner
  /\ state = State

(***************************************************************************)
(* A range scanned on its own.                                             *)
(***************************************************************************)
Indexing == pc \in {"index", "edit_indexed"}

\* the ids of the fetched messages that are photos with key k
PhotoIds(k) ==
  {hist.fetched[i].id : i \in {j \in 1..Len(hist.fetched) :
                                 /\ IsKeyedPhoto(hist.fetched[j])
                                 /\ KeyOf(hist.fetched[j]) = k}}

Smallest(ids) == CHOOSE i \in ids : \A j \in ids : i <= j

\* C5: the index of a target range maps each non-empty caption key to the
\* smallest id of the range whose message is a photo with that key, and an
\* entry, once stored, is never overwritten.
C5_FirstWins ==
  /\ [](Indexing =>
          /\ \A k \in DOMAIN run.index :
               PhotoIds(k) # {} /\ run.index[k] = Smallest(PhotoIds(k))
          /\ pc = "edit_indexed" =>
               /\ run.indexes[run.n] = run.index
               /\ DOMAIN run.index =
                    {KeyOf(hist.fetched[i]) :
                       i \in {j \in 1..Len(hist.fetched) :
                                IsKeyedPhoto(hist.fetched[j])}})
  /\ [][pc = "index" /\ pc' \in {"index", "edit_indexed"} =>
          \A k \in DOMAIN run.index :
            k \in DOMAIN run'.index /\ run'.index[k] = run.index[k]]_vars

\* two photos with different captions and the same key: the first is stored
C5_Witness ==
  /\ pc = "edit_indexed"
  /\ \E i, j \in 1..Len(hist.fetched) :
       /\ i < j
       /\ IsKeyedPhoto(hist.fetched[i])
       /\ IsKeyedPhoto(hist.fetched[j])
       /\ hist.fetched[i].caption # hist.fetched[j].caption
       /\ KeyOf(hist.fetched[i]) = KeyOf(hist.fetched[j])
       /\ run.index[KeyOf(hist.fetched[i])] = hist.fetched[i].id

\* the arguments start_id and end_id of the scan in progress
ScanArgs == run.target_specs[run.n]

ScanLo == IF ScanArgs[1] <= ScanArgs[2] THEN ScanArgs[1] ELSE ScanArgs[2]
ScanHi == IF ScanArgs[1] <= ScanArgs[2] THEN ScanArgs[2] ELSE ScanArgs[1]

Retrievable(m) == m.kind \notin {"absent", "empty"}

\* C6: iter_range requests the ids of [min(start, end), max(start, end)] in
\* ascending order, each once and no other; it yields, in that order, the
\* fetched messages that are neither absent nor empty; and iter_range(end,
\* start) is the same generator.
C6_IterRange ==
  Indexing =>
    /\ Len(hist.requested) <= ScanHi - ScanLo + 1
    /\ \A k \in 1..Len(hist.requested) : hist.requested[k] = ScanLo + k - 1
    /\ pc = "edit_indexed" => Len(hist.requested) = ScanHi - ScanLo + 1
    /\ Len(hist.fetched) = Len(hist.requested)
    /\ \A k \in 1..Len(hist.fetched) : hist.fetched[k].id = hist.requested[k]
    /\ hist.yielded = SelectSeq(hist.fetched, Retrievable)
    /\ \A i, j \in 1..Len(hist.yielded) :
         i < j => hist.yielded[i].id < hist.yielded[j].id
    /\ [gen EXCEPT !.base = ScanLo] =
         iter_range(gen.chat_id, ScanArgs[2], ScanArgs[1], gen.chunk)

\* start > end, two batches, an absent and an empty message omitted
C6_Witness ==
  /\ pc = "edit_indexed"
  /\ ScanArgs[1] > ScanArgs[2]
  /\ gen.chunk = 2
  /\ Len(hist.requested) = 3
  /\ Len(hist.yielded) = 1
  /\ \E i, j \in 1..3 : /\ hist.fetched[i].kind = "absent"
                         /\ hist.fetched[j].kind = "empty"

(***************************************************************************)
(* The empty key.                                                          *)
(***************************************************************************)
\* the relay of one source photo to one target is in progress
Relaying == pc \in {"fetch", "copy", "flood_sleep", "retry", "throttle"}

LookupsOf(n) == Cardinality({i \in 1..Len(hist.lookups) : hist.lookups[i].n = n})

\* C7: no index contains the empty key; every index lookup, and every fetch
\* and copy that follows it, is for a source photo whose key is not empty;
\* the sent and notFound counters of a target count lookups only.
C7_EmptyKeyUnused ==
  /\ <<>> \notin DOMAIN run.index
  /\ \A n \in TargetNums : <<>> \notin DOMAIN run.indexes[n]
  /\ \A i \in 1..Len(hist.lookups) :
       /\ hist.lookups[i].key # <<>>
       /\ \E j \in 1..Len(Consumed) :
            /\ Consumed[j].id = hist.lookups[i].x_id
            /\ IsKeyedPhoto(Consumed[j])
            /\ KeyOf(Consumed[j]) = hist.lookups[i].key
  /\ Relaying =>
       /\ run.key # <<>>
       /\ hist.lookups # <<>>
       /\ hist.lookups[Len(hist.lookups)] = [x_id |-> run.x_id, n |-> run.n,
                                             key |-> run.key]
  /\ RelayPhase =>
       \A n \in TargetNums :
         run.total_sent[n] + run.total_not_found[n]
           + (IF pc \in {"fetch", "copy", "flood_sleep", "retry"} /\ run.n = n
                THEN 1 ELSE 0)
           = LookupsOf(n)
  /\ pc = "done" =>
       \A n \in TargetNums :
         hist.summary.total_sent[n] + hist.summary.total_not_found[n]
           = KeyedPhotos(hist.yielded)

\* a run over a photo with an empty key and a photo that is relayed: one
\* lookup for each target, all for the second photo
C7_Witness ==
  /\ pc = "done"
  /\ Photos(hist.yielded) = 2
  /\ KeyedPhotos(hist.yielded) = 1
  /\ Len(hist.lookups) = 2
  /\ hist.summary.total_sent[1] = 1

(***************************************************************************)
(* The configuration machine.                                              *)
(***************************************************************************)
\* what handle_text answers
TextOutcomes == {"text_unarmed", "send_last", "x_range_set", "a_range_set"}

\* the values a free text may store: the text without surrounding whitespace
TextValues == {PyStr(Strip(m.text)) : m \in {t \in CfgMessages : t.cmd = "text"}}

\* STATE after a free text of value txt, read off the marker
Advanced(txt) ==
  LET w == state.waiting_for
  IN  CASE w = "None" -> state
        [] w = "x_first" -> [state EXCEPT !.x_start = txt, !.waiting_for = "x_last"]
        [] w = "x_last" -> [state EXCEPT !.x_end = txt, !.waiting_for = "None"]
        [] w = "a_first_1" ->
             [state EXCEPT !.targets[1].a_start = txt, !.waiting_for = "a_last_1"]
        [] w = "a_last_1" ->
             [state EXCEPT !.targets[1].a_end = txt, !.waiting_for = "None"]
        [] w = "a_first_2" ->
             [state EXCEPT !.targets[2].a_start = txt, !.waiting_for = "a_last_2"]
        [] w = "a_last_2" ->
             [state EXCEPT !.targets[2].a_end = txt, !.waiting_for = "None"]

\* C8: a free text of the owner leaves STATE unchanged when no marker is
\* armed; armed for a first endpoint it stores it and arms the last endpoint
\* of the same range; armed for a last endpoint it stores it and disarms.
\* While a last endpoint is awaited the first one is stored and the last is
\* not, so two texts complete a sequence and fill the armed range only.
C8_FreeText ==
  /\ [](/\ state.waiting_for \in {"None", "x_first", "x_last", "a_first_1",
                                   "a_last_1", "a_first_2", "a_last_2"}
        /\ state.waiting_for = "x_first" =>
             state.x_start = None /\ state.x_end = None
        /\ state.waiting_for = "x_last" =>
             state.x_start \in TextValues /\ state.x_end = None
        /\ \A n \in TargetNums :
             /\ state.waiting_for = a_first(n) =>
                  /\ state.targets[n].a_start = None
                  /\ state.targets[n].a_end = None
             /\ state.waiting_for = a_last(n) =>
                  /\ state.targets[n].a_start \in TextValues
                  /\ state.targets[n].a_end = None)
  /\ [][ev'.outcome \in TextOutcomes =>
          /\ \E txt \in TextValues : state' = Advanced(txt)
          /\ state.waiting_for = "None" <=> ev'.outcome = "text_unarmed"
          /\ UNCHANGED <<pc, run, gen, hist>>]_vars

\* the second text of a sequence armed for target 2 has been consumed: the
\* range of target 2 is filled and no other
C8_Witness ==
  /\ ev.outcome = "a_range_set"
  /\ state.waiting_for = "None"
  /\ state.targets[2].a_start \in TextValues
  /\ state.targets[2].a_end \in TextValues
  /\ state.targets[1].a_start = None
  /\ state.targets[1].a_end = None
  /\ state.x_start = None
  /\ state.x_end = None

\* C9: a message whose sender is absent or is not the owner is ignored: no
\* field of STATE changes, no run starts and nothing of a run changes.
C9_OwnerOnly ==
  [][ev'.from_user # Owner =>
       /\ ev'.outcome = "ignored"
       /\ UNCHANGED <<state, pc, run, gen, hist>>]_vars

\* a message of somebody else has been ignored while a marker is armed and
\* the configuration would let the owner start a run
C9_Witness ==
  /\ ev.outcome = "ignored"
  /\ ev.from_user = PyInt(OWNER_ID + 1)
  /\ state.waiting_for = "a_first_1"
  /\ Truthy(state.source_x) /\ Truthy(state.x_start) /\ Truthy(state.x_end)

\* what cmd_run answers
RunOutcomes ==
  {"source_missing", "x_range_missing", "target_missing", "a_range_missing",
   "x_parse_error", "a_parse_error", "started"}

\* a field the run requires is unset
AnyMissing(st) ==
  \/ st.source_x = None
  \/ st.x_start = None
  \/ st.x_end = None
  \/ \E n \in TargetNums :
       \/ st.targets[n].target_a = None
       \/ st.targets[n].target_list = None
       \/ st.targets[n].a_start = None
       \/ st.targets[n].a_end = None

\* C10: the run command handled while a required field is unset answers that
\* the field is missing and changes nothing: STATE is unchanged and the run
\* does not start; a run that has started read a complete STATE.
C10_RunRefused ==
  /\ [][ev'.outcome \in RunOutcomes /\ AnyMissing(state) =>
          /\ ev'.outcome \in {"source_missing", "x_range_missing",
                              "target_missing", "a_range_missing"}
          /\ UNCHANGED <<state, pc, run, gen, hist>>]_vars
  /\ [](pc # "idle" => ~AnyMissing(hist.snap))

\* the run command refused for the destination of target 2 alone
C10_Witness ==
  /\ ev.outcome = "target_missing"
  /\ pc = "idle"
  /\ hist = NoHist
  /\ state.targets[2].target_list = None
  /\ ~AnyMissing([state EXCEPT !.targets[2].target_list = PyInt(-1004)])

(***************************************************************************)
(* Errors of a run.                                                        *)
(***************************************************************************)
Malformed(x) == x.kind = "str" /\ x.v \in MalformedLinks

XMalformed(st) == Malformed(st.x_start) \/ Malformed(st.x_end)

AMalformed(st) ==
  \E n \in TargetNums :
    Malformed(st.targets[n].a_start) \/ Malformed(st.targets[n].a_end)

\* no remote call of a run has been made
NothingIssued ==
  /\ pc = "idle"
  /\ hist = NoHist
  /\ run = RunLocals

\* C11: the run command handled at a STATE one of whose range links is
\* malformed reports the parse error (of the source links first) and ends
\* there: nothing of a run changes, so no chat is resolved, no message is
\* fetched and no copy is made; a run that has started read links that are
\* all well formed.
C11_MalformedAborts ==
  /\ [][ev'.outcome \in RunOutcomes /\ ~AnyMissing(state)
          /\ (XMalformed(state) \/ AMalformed(state)) =>
            /\ ev'.outcome =
                 IF XMalformed(state) THEN "x_parse_error" ELSE "a_parse_error"
            /\ NothingIssued'
            /\ UNCHANGED <<state, pc, run, gen, hist>>]_vars
  /\ [](pc # "idle" => ~XMalformed(hist.snap) /\ ~AMalformed(hist.snap))

\* the last link of target 2 alone is malformed, in a way LINK_RE accepts
C11_Witness ==
  /\ ev.outcome = "a_parse_error"
  /\ ev.from_user = Owner
  /\ NothingIssued
  /\ state.targets[2].a_end = PyStr(CNameLink)
  /\ ~AMalformed([state EXCEPT !.targets[2].a_end = PyStr(LinkText(MaxId))])
  /\ ~XMalformed(state)

\* C12: when a chat of the run cannot be resolved (get_chat fails), no range
\* of any target has been scanned in that run.
C12_ResolvedBeforeIndexing ==
  pc = "aborted" /\ hist.error = "get_chat" =>
    /\ hist.requested = <<>>
    /\ \A n \in TargetNums : run.indexes[n] = EmptyIndex

(***************************************************************************)
(* The throttle.                                                           *)
(***************************************************************************)
\* a safe_copy is in progress
InSafeCopy == pc \in {"copy", "flood_sleep", "retry"}

\* where the loops go on once a target is dealt with
GoesOn == {"fetch", "scan", "summary"}

\* C13 as stated: after every relay call, whether its copy succeeded or not,
\* the throttle sleep follows.
C13_SleepAfterEveryAttempt ==
  [][(pc = "copy" /\ pc' # "flood_sleep") \/ pc = "retry" =>
       pc' = "throttle"]_vars

\* C13 amended: a safe_copy that returns is followed by the throttle sleep,
\* and only then do the loops go on; a safe_copy that raises ends the run
\* with no throttle sleep; the throttle sleep follows nothing but a safe_copy
\* that returned, so a miss or a stale hit goes on without it.
C13_ThrottleAfterCopy ==
  [][/\ InSafeCopy => pc' \in {"flood_sleep", "retry", "throttle", "aborted"}
     /\ InSafeCopy /\ run'.total_sent # run.total_sent => pc' = "throttle"
     /\ pc' = "throttle" =>
          /\ pc \in {"copy", "retry"}
          /\ run'.total_sent[run.n] = run.total_sent[run.n] + 1
          /\ run'.total_not_found = run.total_not_found
     /\ pc = "throttle" =>
          /\ pc' \in GoesOn
          /\ run'.total_sent = run.total_sent
     /\ pc \in {"scan", "fetch"} /\ run'.total_not_found # run.total_not_found =>
          pc' \in GoesOn]_vars

\* the throttle sleep after a copy to target 2 that succeeded on its retry,
\* target 1 having missed without a throttle sleep
C13_Witness ==
  /\ pc = "throttle"
  /\ run.n = 2
  /\ Len(hist.relay) = 3
  /\ run.total_sent = [n \in TargetNums |-> IF n = 2 THEN 1 ELSE 0]
  /\ run.total_not_found = [n \in TargetNums |-> IF n = 1 THEN 1 ELSE 0]

(***************************************************************************)
(* Caption normalization.                                                  *)
(***************************************************************************)
\* C14: clean_caption(clean_caption(x)) = clean_caption(x) for the caption x
\* of every message that was indexed.
C14_Idempotent ==
  \A i \in 1..Len(hist.fetched) :
    LET x == CaptionOrEmpty(hist.fetched[i])
    IN  clean_caption(clean_caption(x)) = clean_caption(x)

(***************************************************************************)
(* Order of the phases of a run.                                           *)
(***************************************************************************)
\* target run.n is being resolved or indexed
IndexPhase == pc \in {"resolve_a", "username", "index", "edit_indexed"}

LastTarget == CHOOSE n \in TargetNums : \A k \in TargetNums : k <= n

\* C15: the targets are resolved and indexed one at a time in ascending
\* number, the scan of one complete before the next begins; the index of a
\* target is stored when its scan ends and never changes afterwards; the
\* relay phase begins after the last target's index is stored, and no
\* lookup, source fetch or copy is made before.
C15_IndexOrder ==
  /\ [](IndexPhase =>
          /\ run.n \in TargetNums
          /\ \A k \in TargetNums : k > run.n => run.indexes[k] = EmptyIndex
          /\ pc # "edit_indexed" => run.indexes[run.n] = EmptyIndex
          /\ hist.lookups = <<>> /\ hist.relay = <<>> /\ run.buf = <<>>)
  /\ [][/\ IndexPhase' /\ run'.n # run.n =>
             \/ pc = "reply_progress" /\ run'.n = 1
             \/ pc = "edit_indexed" /\ run'.n = run.n + 1
        /\ IndexPhase' /\ ~IndexPhase => pc = "reply_progress"
        /\ pc' = "edit_indexed" /\ pc # "edit_indexed" =>
             /\ pc = "index" /\ run'.n = run.n
             /\ Len(hist'.requested) = ScanHi - ScanLo + 1
             /\ run'.indexes = [run.indexes EXCEPT ![run.n] = run'.index]
        /\ ~(pc = "index" /\ pc' = "edit_indexed") /\ pc # "idle" =>
             run'.indexes = run.indexes
        /\ pc = "edit_indexed" =>
             \/ IndexPhase' /\ run.n # LastTarget
             \/ pc' = "edit_ready" /\ run.n = LastTarget
        /\ pc' = "edit_ready" => pc = "edit_indexed"
        /\ pc' \in {"scan", "fetch", "copy"} =>
             pc \in {"edit_ready", "scan", "fetch", "throttle"}]_vars

\* the relay phase is about to begin: both indexes are stored, target 1's
\* from two requested ids
C15_Witness ==
  /\ pc = "edit_ready"
  /\ run.indexes[1] # EmptyIndex
  /\ run.indexes[2] # EmptyIndex
  /\ run.indexes[1] # run.indexes[2]

\* the source photos taken so far whose key is not empty, in order
KeyedConsumed == SelectSeq(Consumed, IsKeyedPhoto)

NumTargets == Cardinality(TargetNums)

\* C16: the lookups of the relay phase are made message by message and, for
\* one message, target by target in ascending number: lookup i is for the
\* ((i-1) div 2 + 1)-th photo with a key and for target (i-1) mod 2 + 1.
\* While the fetch, copy, retry or throttle for a target is in progress its
\* lookup is the last one made; between two source messages every target has
\* been looked up for every photo with a key, whatever missed.
C16_TargetOrder ==
  /\ [](/\ \A i \in 1..Len(hist.lookups) :
             /\ hist.lookups[i].n = ((i - 1) % NumTargets) + 1
             /\ (i - 1) \div NumTargets + 1 <= Len(KeyedConsumed)
             /\ hist.lookups[i].x_id =
                  KeyedConsumed[(i - 1) \div NumTargets + 1].id
        /\ Relaying =>
             Len(hist.lookups) = NumTargets * (Len(KeyedConsumed) - 1) + run.n
        /\ pc \in {"scan", "summary", "done"} =>
             Len(hist.lookups) = NumTargets * Len(KeyedConsumed)
        /\ hist.relay # <<>> => pc \in {"copy", "flood_sleep", "retry",
                                         "throttle", "aborted"})
  /\ [][Len(hist'.lookups) > Len(hist.lookups) =>
          pc \in {"scan", "fetch", "throttle"}]_vars

\* two photos with a key: target 1 missed both, target 2 was sent both
C16_Witness ==
  /\ pc = "done"
  /\ Len(hist.lookups) = 4
  /\ hist.summary.total_not_found = [n \in TargetNums |-> IF n = 1 THEN 2 ELSE 0]
  /\ hist.summary.total_sent = [n \in TargetNums |-> IF n = 2 THEN 2 ELSE 0]

(***************************************************************************)
(* Stale index entries.                                                    *)
(***************************************************************************)
\* what a fetch of an indexed message answers when the entry is stale
StaleKinds == {"absent", "empty", "text"}

\* C17: when the fetch of an indexed message answers nothing, an empty
\* placeholder or a message that is no photo, the notFound counter of that
\* target counts it, no copy is made, no sent counter changes and the loops
\* go on with the next target; when it answers a photo the copy is made and
\* no counter changes.
C17_StaleTolerated ==
  [][pc = "fetch" /\ pc' # "aborted" =>
       /\ ev'.outcome \in StaleKinds \cup {"photo"}
       /\ ev'.outcome \in StaleKinds =>
            /\ pc' \in GoesOn
            /\ hist'.relay = <<>>
            /\ run'.total_sent = run.total_sent
            /\ \A n \in TargetNums : n = run.n =>
                 run'.total_not_found[n] =
                   run.total_not_found[n] + 1
                     + (LookupsOf(n)' - LookupsOf(n))
                     - (IF pc' = "fetch" /\ run'.n = n THEN 1 ELSE 0)
            /\ run.n # LastTarget =>
                 /\ Len(hist'.lookups) > Len(hist.lookups)
                 /\ hist'.lookups[Len(hist.lookups) + 1] =
                      [x_id |-> run.x_id, n |-> run.n + 1, key |-> run.key]
       /\ ev'.outcome = "photo" =>
            /\ pc' = "copy"
            /\ Len(hist'.relay) = 1
            /\ run'.total_sent = run.total_sent
            /\ run'.total_not_found = run.total_not_found]_vars

\* the entry of target 1 was stale (the message is gone) and the run went
\* on to fetch the entry of target 2
C17_Witness ==
  /\ pc = "fetch"
  /\ ev.outcome = "absent"
  /\ run.n = 2
  /\ run.total_not_found[1] = 1
  /\ run.total_sent[1] = 0
  /\ hist.relay = <<>>

(***************************************************************************)
(* Termination.  Rank is a natural number that every step of a run makes   *)
(* smaller: the work left, counted in steps, with the phases, the targets, *)
(* the batches, the messages of a batch and the steps of one relay weighed *)
(* so that each outweighs all that it contains.                            *)
(***************************************************************************)
\* the batches a generator still has to fetch
BatchesLeft(g) == IF g.base > g.hi THEN 0 ELSE (g.hi - g.base) \div g.chunk + 1

SpanOf(a, b) == Max(a, b) - Min(a, b) + 1

\* one more than the positions of the relay to one target
TargetWork == Cardinality({"fetch", "copy", "flood_sleep", "retry", "throttle"}) + 1

RelayStep ==
  CASE pc = "fetch" -> 5
    [] pc = "copy" -> 4
    [] pc = "flood_sleep" -> 3
    [] pc = "retry" -> 2
    [] pc = "throttle" -> 1
    [] OTHER -> 0

MsgWork == TargetWork * NumTargets

BatchWork == MsgWork * (SpanOf(run.x_start_id, run.x_end_id) + 1)

RelayRank ==
  2 + BatchesLeft(gen) * BatchWork + Len(run.buf) * MsgWork
    + (IF Relaying THEN (NumTargets - run.n) * TargetWork + RelayStep ELSE 0)

\* more than any rank of the relay phase
RelayMax ==
  3 + BatchWork
        * (BatchesLeft(iter_range(0, run.x_start_id, run.x_end_id, DefaultChunk)) + 1)

\* resolution, username, batches and progress edit of one target, at most
IndexWork ==
  4 + BatchesLeft(iter_range(0, 1, 1 + Max(SpanOf(run.target_specs[1][1],
                                                   run.target_specs[1][2]),
                                            SpanOf(run.target_specs[2][1],
                                                   run.target_specs[2][2])),
                             DefaultChunk))

IndexStep ==
  CASE pc = "resolve_a" -> IndexWork - 1
    [] pc = "username" -> IndexWork - 2
    [] pc = "index" -> BatchesLeft(gen) + 1
    [] pc = "edit_indexed" -> 1
    [] OTHER -> 0

Rank ==
  CASE pc \in {"idle", "done", "aborted"} -> 0
    [] pc = "summary" -> 1
    [] RelayPhase /\ pc \notin {"summary", "done"} -> RelayRank
    [] pc = "edit_ready" -> RelayMax
    [] IndexPhase -> RelayMax + IndexWork * (NumTargets - run.n) + IndexStep
    [] pc = "reply_progress" -> RelayMax + IndexWork * NumTargets + 1
    [] pc = "resolve_x" -> RelayMax + IndexWork * NumTargets + 2

\* the positions whose step waits for nothing but the return of the call or
\* sleep: the throttle sleep (RunThrottle), and the fetch of an indexed
\* message, which at the least can fail (RunFetchIndexed)
Unguarded == {"fetch", "throttle"}

\* C18: every step of a started run makes the natural number Rank smaller, and
\* Rank is 0 exactly when the run has ended (summary sent, or an error); a run
\* that has not ended can take a step once the call or sleep it awaits
\* returns.  So, the calls and sleeps returning, the run reaches its summary
\* or an error after at most Rank steps, however often it is rate limited.
C18_Terminates ==
  /\ [](/\ Rank >= 0
        /\ Running <=> Rank > 0
        /\ Running /\ pc \notin Unguarded => ENABLED Driver(RunMsgs))
  /\ [][Running => Rank' < Rank]_vars

\* a run that was rate limited twice in one safe_copy has ended
C18_Witness ==
  /\ pc = "aborted"
  /\ hist.error = "FloodWait"
  /\ hist.relay[2].secs = 3
  /\ run.total_sent[1] = 1

(***************************************************************************)
(* The counters of the summary.                                            *)
(***************************************************************************)
\* this step is the successful answer to a copy to target n, first or retried
CopySucceeds(n) == pc \in {"copy", "retry"} /\ pc' = "throttle" /\ run.n = n

SumOf(counters, n) == counters.total_sent[n] + counters.total_not_found[n]

\* C19: the sent counter of target n starts at 0 and grows by one exactly on
\* a successful answer to a copy (first or retried) to target n's
\* destination; the summary reports the counters as they are; and in it, for
\* every target, sent + notFound is the number of source photos of the range
\* whose key is not empty, the same for all targets and at most processed.
C19_CounterConservation ==
  /\ [](/\ pc \in {"copy", "retry"} =>
             /\ IsCopy(hist.relay[Len(hist.relay)])
             /\ hist.relay[Len(hist.relay)].to_chat
                  = state.targets[run.n].target_list
        /\ pc = "done" =>
             /\ hist.summary.total_sent = run.total_sent
             /\ hist.summary.total_not_found = run.total_not_found
             /\ hist.summary.processed_x = run.processed_x
             /\ \A n \in TargetNums :
                  /\ SumOf(hist.summary, n) = KeyedPhotos(hist.yielded)
                  /\ SumOf(hist.summary, n) <= hist.summary.processed_x
                  /\ \A m \in TargetNums :
                       SumOf(hist.summary, n) = SumOf(hist.summary, m))
  /\ [][/\ pc = "edit_ready" =>
             \A n \in TargetNums : run.total_sent'[n] = 0
        /\ RelayPhase =>
             \A n \in TargetNums :
               run.total_sent'[n]
                 = run.total_sent[n] + (IF CopySucceeds(n) THEN 1 ELSE 0)]_vars

\* a summary after a photo with an empty key and a photo that was copied to
\* target 1 and was not found for target 2
C19_Witness ==
  /\ pc = "done"
  /\ hist.summary.processed_x = 2
  /\ hist.summary.total_sent[1] = 1
  /\ hist.summary.total_not_found[1] = 0
  /\ hist.summary.total_sent[2] = 0
  /\ hist.summary.total_not_found[2] = 1

(***************************************************************************)
(* The ranges as they are collected.                                       *)
(***************************************************************************)
\* the ranges: 0 for the source range, n for the range of target n
Ranges == {0} \cup TargetNums

FirstOf(st, k) == IF k = 0 THEN st.x_start ELSE st.targets[k].a_start

LastOf(st, k) == IF k = 0 THEN st.x_end ELSE st.targets[k].a_end

\* the marker awaits an endpoint of range k
ArmedFor(st, k) ==
  IF k = 0 THEN st.waiting_for \in {"x_first", "x_last"}
  ELSE st.waiting_for \in {a_first(k), a_last(k)}

\* this step is the free text that completes a sequence
Completes == ev'.outcome \in {"x_range_set", "a_range_set"}

\* C20: in every state of the configuration machine a range's last endpoint
\* is set only if its first is, a range the marker is armed for has no last
\* endpoint, and an armed marker names the source range or an existing
\* target.  A last endpoint becomes set only by the text that completes the
\* sequence armed for its range, so it stays unset while the sequence is in
\* flight and after another sequence is armed instead; the run command
\* handled in such a state answers that a field is missing and changes
\* nothing.  The marker is armed for target n only when its channel is set.
C20_RangeCollection ==
  /\ [](/\ \A k \in Ranges :
             /\ LastOf(state, k) # None => FirstOf(state, k) # None
             /\ ArmedFor(state, k) => LastOf(state, k) = None
        /\ state.waiting_for # "None" => \E k \in Ranges : ArmedFor(state, k))
  /\ [][\A k \in Ranges :
          /\ LastOf(state, k) = None /\ LastOf(state', k) # None =>
               /\ ArmedFor(state, k)
               /\ Completes
               /\ state'.waiting_for = "None"
          /\ ArmedFor(state, k) /\ ~Completes => LastOf(state', k) = None
          /\ ev'.outcome \in RunOutcomes
               /\ (ArmedFor(state, k) \/ LastOf(state, k) = None) =>
               /\ ev'.outcome \in {"source_missing", "x_range_missing",
                                   "target_missing", "a_range_missing"}
               /\ UNCHANGED <<state, pc, run, gen, hist>>
          /\ k \in TargetNums /\ ev'.outcome = "send_first"
               /\ state'.waiting_for = a_first(k) =>
               /\ Truthy(state.targets[k].target_a)
               /\ state'.targets[k].target_a = state.targets[k].target_a]_vars

\* the run command refused while the last endpoint of the source range is
\* awaited, the sequence of target 1 left after its first endpoint and the
\* range of target 2 complete
C20_Witness ==
  /\ ev.outcome = "x_range_missing"
  /\ state.waiting_for = "x_last"
  /\ state.x_start # None
  /\ state.targets[1].a_start # None
  /\ state.targets[1].a_end = None
  /\ state.targets[2].a_end # None
  /\ pc = "idle"

=============================================================================
